---- MODULE Spec2Model ----
(***************************************************************************)
(* The real-time chat core of the book_management frontend:                *)
(*   - WebSocketClient (frontend/src/lib/websocket.js): one socket, its     *)
(*     reconnection timers and the listener registry;                      *)
(*   - useChatStore (store/chatStore): rooms, current room, message buffer, *)
(*     the history fetches of selectRoom and the store's event handler.    *)
(* The browser's event loop runs one callback at a time, so every handler  *)
(* and every method call is one atomic action.                             *)
(*                                                                         *)
(* Seven specifications share the state and the actions:                    *)
(*   SpecConn      the client alone, driven through connect/disconnect,    *)
(*                 over many sockets (the reconnection loop);              *)
(*   SpecInbound   the store and the frames it receives; the socket        *)
(*                 events left out (onclose, the reconnection timer) leave *)
(*                 rooms, currentRoom, messages and listeners untouched;   *)
(*   SpecOutbound  the store's calls into send over the whole socket       *)
(*                 lifecycle, with no inbound frames;                      *)
(*   SpecStorm     the client while every socket fails before it opens;    *)
(*   SpecTokens    the client connected with two different tokens;         *)
(*   SpecLate      the store and new_message frames over sockets that      *)
(*                 close and are replaced by the reconnection timer;       *)
(*   SpecBus       the listener registry alone, with callers that keep the *)
(*                 function on() returns and invoke it.                    *)
(* The history variable run records the delays scheduled by closes since   *)
(* the client was last at rest with reconnectAttempts = 0; it is Untracked *)
(* once a client call or a leftover timer interferes.  The history         *)
(* variable track follows the selectRoom calls made in a row for one room  *)
(* and subs the on() calls of SpecBus; console is what the last step       *)
(* logged.                                                                 *)
(***************************************************************************)
EXTENDS Integers, Sequences, FiniteSets, TLC

\* ------------------------------------------------------------------ bounds

\* sockets created in a run of the store over the client (SpecInbound, SpecOutbound)
MaxSockets == 2
\* sockets created in a run of the connection manager alone (SpecConn)
MaxDeepSockets == 6
\* new_message frames the server sends in a run
MaxMsgs == 2
\* history fetches in flight at once
MaxFetches == 2
\* sockets created while none of them opens (SpecStorm)
MaxStormSockets == 8
\* sockets created under two tokens (SpecTokens)
MaxTokenSockets == 3
\* on() calls whose returned function is kept
MaxSubs == 3

\* ------------------------------------------------------------ input domains

Tokens == {"abc", "xyz"}
\* the token of the runs of the connection manager alone
DeepTokens == {"abc"}
RoomIds == {5, 7}
ListenerKeys == {"k1", "k2"}
\* what the user may type: sequences of characters
Contents == {<<>>, <<" ">>, <<"h", "i">>, <<" ", "h", " ">>}

\* ----------------------------------------------------------------- state

VARIABLES
  ws,                \* this.ws: index into sockets, NoSocket for null
  sockets,           \* every WebSocket created so far: [token, readyState]
  timers,            \* pending setTimeout callbacks of onclose: [sock, token, delay]
  reconnectAttempts, \* this.reconnectAttempts
  listeners,         \* this.listeners: the Map's keys in insertion order
  rooms,             \* store.rooms: sequence of [id, unread_count]
  currentRoom,       \* store.currentRoom: a room id, NoRoom for null
  messages,          \* store.messages: sequence of [id, room_id]
  connected,         \* store.connected
  fetches,           \* chatService.getMessages calls in flight, per room id
  msgSeq,            \* new_message frames sent by the server so far
  handed,            \* envelopes passed to wsClient.send by the last step
  wireOut,           \* envelopes the last step put on the socket
  invoked,           \* listener keys called by the last step's onmessage
  console,           \* what the last step wrote with console.error or console.warn
  disconnected,      \* history: disconnect() was the last explicit client call
  unheard,           \* history: a frame has arrived since that disconnect()
  lastToken,         \* history: the token of the last explicit connect
  run,               \* history: delays scheduled by consecutive unexpected closes
  expected,          \* history: per room, messages that arrived while not current
  subs,              \* history: the on() calls whose returned function the caller kept
  track              \* history: the selectRoom calls made in a row for one room

connVars == <<ws, sockets, timers, reconnectAttempts, listeners>>
storeVars == <<rooms, currentRoom, messages, connected, fetches, msgSeq>>
obsVars == <<handed, wireOut, invoked, console>>
histVars == <<disconnected, unheard, lastToken, run, expected, subs, track>>
vars == <<connVars, storeVars, obsVars, histVars>>

NoSocket == 0
NoRoom == 0
NoToken == "-"
Untracked == <<-1>>
Silent == ""
\* track when the last store events were not selectRoom calls for one room
NoTrack == [room |-> NoRoom, rooms0 |-> <<>>, hist |-> <<>>, calls |-> 0,
            settled |-> FALSE]

\* ------------------------------------------------------- WebSocketClient

maxReconnectAttempts == 5
baseDelay == 1000
capDelay == 5000

Min(a, b) == IF a < b THEN a ELSE b

\* Math.min(1000 * Math.pow(2, this.reconnectAttempts), 5000)
Backoff_NoCap(n) == baseDelay * 2^n
Backoff(n) == Min(baseDelay * 2^n, capDelay)

\* if (this.reconnectAttempts < this.maxReconnectAttempts)
ShouldReconnect(n) == n < maxReconnectAttempts

\* onopen: this.reconnectAttempts = 0
AttemptsOnOpen_Kept(n) == n
AttemptsOnOpen(n) == 0

\* WebSocket.close(): CONNECTING and OPEN become CLOSING, else nothing happens
CloseSocket(socks, s) ==
  IF socks[s].readyState \in {"CONNECTING", "OPEN"}
  THEN [socks EXCEPT ![s].readyState = "CLOSING"]
  ELSE socks

\* if (this.ws) { this.ws.close(); }
ClosePrior_Skip(socks, w) == socks
ClosePrior(socks, w) == IF w # NoSocket THEN CloseSocket(socks, w) ELSE socks

Client ==
  [ws |-> ws, sockets |-> sockets, timers |-> timers,
   reconnectAttempts |-> reconnectAttempts, listeners |-> listeners]

SetClient(c) ==
  /\ ws' = c.ws
  /\ sockets' = c.sockets
  /\ timers' = c.timers
  /\ reconnectAttempts' = c.reconnectAttempts
  /\ listeners' = c.listeners

\* connect(token): close the existing socket, create the new one
connect(c, token) ==
  [c EXCEPT !.sockets = Append(ClosePrior(c.sockets, c.ws),
                               [token |-> token, readyState |-> "CONNECTING"]),
            !.ws = Len(c.sockets) + 1]

\* disconnect(): close and forget the socket, clear the listeners
disconnect_KeepsListeners(c) ==
  [c EXCEPT !.sockets = ClosePrior(c.sockets, c.ws),
            !.ws = NoSocket]
disconnect_KeepsSocket(c) ==
  [c EXCEPT !.sockets = ClosePrior(c.sockets, c.ws),
            !.listeners = <<>>]
disconnect(c) ==
  [c EXCEPT !.sockets = ClosePrior(c.sockets, c.ws),
            !.ws = NoSocket,
            !.listeners = <<>>]

\* this.listeners.set(id, callback): a key already present keeps its place
on(c, id) ==
  IF \E i \in 1..Len(c.listeners) : c.listeners[i] = id
  THEN c
  ELSE [c EXCEPT !.listeners = Append(c.listeners, id)]

\* the function on() returns: () => this.listeners.delete(id)
unsubscribe(c, id) == [c EXCEPT !.listeners = SelectSeq(@, LAMBDA k : k # id)]

\* this.ws?.readyState === WebSocket.OPEN
CanSend_AlsoConnecting(c) ==
  c.ws # NoSocket /\ c.sockets[c.ws].readyState \in {"CONNECTING", "OPEN"}
CanSend(c) == c.ws # NoSocket /\ c.sockets[c.ws].readyState = "OPEN"

\* send(data): what reaches the socket of the envelopes handed over
send(c, envs) == IF CanSend(c) THEN envs ELSE <<>>

\* console.warn('WebSocket is not open. Cannot send message.')
Warned(c, envs) == IF envs # <<>> /\ ~CanSend(c) THEN "WebSocket is not open" ELSE Silent

NoObs ==
  /\ handed' = <<>>
  /\ wireOut' = <<>>
  /\ invoked' = <<>>
  /\ console' = Silent

\* no socket is live and no timer is pending
Quiet ==
  /\ timers = {}
  /\ \A s \in 1..Len(sockets) : sockets[s].readyState = "CLOSED"

\* ---- the client driven directly through its methods

\* wsClient.connect(token), called from outside
WsConnect(token) ==
  /\ SetClient(connect(Client, token))
  /\ disconnected' = FALSE
  /\ unheard' = FALSE
  /\ lastToken' = token
  /\ run' = IF Quiet /\ reconnectAttempts = 0 THEN <<>> ELSE Untracked
  /\ NoObs
  /\ UNCHANGED <<storeVars, expected, subs, track>>

\* wsClient.disconnect(), called from outside
WsDisconnect ==
  /\ SetClient(disconnect(Client))
  /\ disconnected' = TRUE
  /\ unheard' = FALSE
  /\ UNCHANGED lastToken
  /\ run' = Untracked
  /\ NoObs
  /\ UNCHANGED <<storeVars, expected, subs, track>>

\* wsClient.on(callback) by a caller that keeps the returned function; id is
\* what Math.random().toString(36).substr(2, 9) gave
WsOn(id) ==
  /\ SetClient(on(Client, id))
  /\ subs' = Append(subs, [id |-> id, cancelled |-> FALSE])
  /\ NoObs
  /\ UNCHANGED <<storeVars, disconnected, unheard, lastToken, run, expected, track>>

\* the caller invokes the function its n-th on() call returned
WsUnsubscribe(n) ==
  /\ SetClient(unsubscribe(Client, subs[n].id))
  /\ subs' = [subs EXCEPT ![n].cancelled = TRUE]
  /\ NoObs
  /\ UNCHANGED <<storeVars, disconnected, unheard, lastToken, run, expected, track>>

\* ws.onopen
onopen(s) ==
  /\ sockets[s].readyState = "CONNECTING"
  /\ sockets' = [sockets EXCEPT ![s].readyState = "OPEN"]
  /\ reconnectAttempts' = AttemptsOnOpen(reconnectAttempts)
  /\ run' = IF timers = {} /\ \A o \in 1..Len(sockets) :
                                 o # s => sockets[o].readyState = "CLOSED"
            THEN <<>> ELSE Untracked
  /\ NoObs
  /\ UNCHANGED <<ws, timers, listeners, storeVars, disconnected, unheard, lastToken, expected, subs, track>>

\* A socket whose close event has fired runs no handler again and the client
\* never reads its url: its record keeps the readyState only.
ClosedSocket == [token |-> NoToken, readyState |-> "CLOSED"]

\* ws.onclose: the socket failed to connect, was closed by the peer or the
\* network, or finished the close the client asked for
onclose(s) ==
  /\ sockets[s].readyState \in {"CONNECTING", "OPEN", "CLOSING"}
  /\ sockets' = [sockets EXCEPT ![s] = ClosedSocket]
  /\ timers' = IF ShouldReconnect(reconnectAttempts)
               THEN timers \cup {[sock |-> s, token |-> sockets[s].token,
                                  delay |-> Backoff(reconnectAttempts)]}
               ELSE timers
  /\ run' = IF run = Untracked THEN Untracked
            ELSE Append(run, IF ShouldReconnect(reconnectAttempts)
                             THEN Backoff(reconnectAttempts) ELSE 0)
  /\ NoObs
  /\ UNCHANGED <<ws, reconnectAttempts, listeners, storeVars, disconnected, unheard, lastToken, expected,
                 subs, track>>

\* the setTimeout callback of onclose
reconnect(t) ==
  /\ t \in timers
  /\ SetClient(connect([Client EXCEPT !.timers = timers \ {t},
                                      !.reconnectAttempts = reconnectAttempts + 1],
                       t.token))
  /\ NoObs
  /\ UNCHANGED <<storeVars, histVars>>


\* ----------------------------------------------------------- useChatStore

Room(id) == [id |-> id, unread_count |-> 0]

\* what GET /chat/rooms may answer
ServerRoomLists == {<<Room(5)>>, <<Room(5), Room(7)>>}

\* what GET /chat/messages/room/{id} may answer: data.messages || []
Histories(r) == {<<>>, <<[id |-> 0, room_id |-> r]>>}

InRooms(rms, r) == \E i \in 1..Len(rms) : rms[i].id = r

\* frames the server may send; kind names the shape of the JSON text
NewMessage(r, n) == [kind |-> "new_message", room_id |-> r, id |-> n]
OtherFrames ==
  {[kind |-> k, room_id |-> NoRoom, id |-> 0] :
     k \in {"new_message_without_message", "user_typing", "presence_update",
            "unknown", "unparsable"}}

\* JSON.parse(event.data) throws
ParseFails_Never(frame) == FALSE
ParseFails(frame) == frame.kind = "unparsable"

\* the store's listener dereferences data.message.room_id: with no message
\* field that throws as soon as it is evaluated (a room is selected, or the
\* rooms.map callback runs at least once)
HandlerThrows(st, cur, data) ==
  /\ data.kind = "new_message_without_message"
  /\ (cur # NoRoom \/ st.rooms # <<>>)

\* if (currentRoom && data.message.room_id === currentRoom.id)
BelongsToCurrent_AnyRoom(cur, data) == cur # NoRoom
BelongsToCurrent(cur, data) == cur # NoRoom /\ data.room_id = cur

\* if (!currentRoom || currentRoom.id !== room.id)
CountsAsUnread(cur, room) == cur = NoRoom \/ cur # room.id

\* case 'user_typing', case 'presence_update' (comments only) and no default
OtherCase_Clears(st, data) == [st EXCEPT !.messages = <<>>]
OtherCase(st, data) == st

\* the callback connectWebSocket registers, on state st = [rooms, messages]
handler(st, cur, data) ==
  IF data.kind = "new_message"
  THEN [rooms |-> [i \in 1..Len(st.rooms) |->
                     IF st.rooms[i].id = data.room_id /\ CountsAsUnread(cur, st.rooms[i])
                     THEN [st.rooms[i] EXCEPT !.unread_count = @ + 1]
                     ELSE st.rooms[i]],
        messages |-> IF BelongsToCurrent(cur, data)
                     THEN Append(st.messages, [id |-> data.id, room_id |-> data.room_id])
                     ELSE st.messages]
  ELSE OtherCase(st, data)

\* this.listeners.forEach((callback) => callback(data)) inside one try block:
\* the first callback that throws ends the loop and lands in the catch
RECURSIVE forEach(_, _, _, _, _)
forEach(keys, st, cur, data, called) ==
  IF keys = <<>>
  THEN [rooms |-> st.rooms, messages |-> st.messages, invoked |-> called,
        caught |-> FALSE]
  ELSE IF HandlerThrows(st, cur, data)
       THEN [rooms |-> st.rooms, messages |-> st.messages,
             invoked |-> Append(called, Head(keys)), caught |-> TRUE]
       ELSE forEach(Tail(keys), handler(st, cur, data), cur, data,
                    Append(called, Head(keys)))

\* ws.onmessage
onmessage(s, frame) ==
  /\ sockets[s].readyState = "OPEN"
  /\ LET out == IF ParseFails(frame)
                THEN [rooms |-> rooms, messages |-> messages, invoked |-> <<>>,
                      caught |-> TRUE]
                ELSE forEach(listeners, [rooms |-> rooms, messages |-> messages],
                             currentRoom, frame, <<>>)
     IN /\ rooms' = out.rooms
        /\ messages' = out.messages
        /\ invoked' = out.invoked
        /\ console' = IF out.caught THEN "Error parsing WebSocket message" ELSE Silent
  /\ msgSeq' = IF frame.kind = "new_message" THEN msgSeq + 1 ELSE msgSeq
  /\ expected' = IF /\ frame.kind = "new_message"
                    /\ listeners # <<>>
                    /\ InRooms(rooms, frame.room_id)
                    /\ currentRoom # frame.room_id
                 THEN [expected EXCEPT ![frame.room_id] = @ + 1]
                 ELSE expected
  /\ handed' = <<>>
  /\ wireOut' = <<>>
  /\ track' = NoTrack
  /\ unheard' = (disconnected \/ unheard)
  /\ UNCHANGED <<connVars, currentRoom, connected, fetches, disconnected, lastToken, run, subs>>

\* the ids Math.random can give the store's next on() call, up to the names of
\* the ids: one that is in the Map already, or one that is not
KeyOrder == <<"k1", "k2">>
NextKeys(keys) ==
  {KeyOrder[i] : i \in 1..Min(Len(keys) + 1, Len(KeyOrder))}

\* connectWebSocket(token)
connectWebSocket(token) ==
  /\ \E key \in NextKeys(listeners) : SetClient(on(connect(Client, token), key))
  /\ connected' = TRUE
  /\ disconnected' = FALSE
  /\ unheard' = FALSE
  /\ lastToken' = token
  /\ run' = IF Quiet /\ reconnectAttempts = 0 THEN <<>> ELSE Untracked
  /\ NoObs
  /\ UNCHANGED <<rooms, currentRoom, messages, fetches, msgSeq, expected, subs, track>>

\* disconnectWebSocket()
disconnectWebSocket ==
  /\ SetClient(disconnect(Client))
  /\ connected' = FALSE
  /\ disconnected' = TRUE
  /\ unheard' = FALSE
  /\ UNCHANGED lastToken
  /\ run' = Untracked
  /\ NoObs
  /\ UNCHANGED <<rooms, currentRoom, messages, fetches, msgSeq, expected, subs, track>>

\* fetchRooms(), at the moment chatService.getRooms() resolves
fetchRooms(list) ==
  /\ rooms' = list
  /\ expected' = [r \in RoomIds |-> 0]
  /\ track' = NoTrack
  /\ NoObs
  /\ UNCHANGED <<connVars, currentRoom, messages, connected, fetches, msgSeq,
                 disconnected, unheard, lastToken, run, subs>>

RECURSIVE Sum(_, _)
Sum(f, S) == IF S = {} THEN 0
             ELSE LET x == CHOOSE y \in S : TRUE IN f[x] + Sum(f, S \ {x})

\* history fetches in flight
InFlight == Sum(fetches, RoomIds)

\* selectRoom(room) up to its await: room is an entry of the rooms menu
selectRoom(room) ==
  /\ InRooms(rooms, room)
  /\ currentRoom' = room
  /\ messages' = <<>>
  /\ fetches' = [fetches EXCEPT ![room] = @ + 1]
  /\ expected' = [expected EXCEPT ![room] = 0]
  /\ track' = IF track.room = room
              THEN [track EXCEPT !.calls = Min(@ + 1, 2)]
              ELSE IF InFlight = 0
                   THEN [room |-> room, rooms0 |-> rooms, hist |-> <<>>,
                         calls |-> 1, settled |-> FALSE]
                   ELSE NoTrack
  /\ NoObs
  /\ UNCHANGED <<connVars, rooms, connected, msgSeq, disconnected, unheard, lastToken, run, subs>>

\* r.id === room.id ? { ...r, unread_count: 0 } : r
ResetUnread_All(rms, room) ==
  [i \in 1..Len(rms) |-> [rms[i] EXCEPT !.unread_count = 0]]
ResetUnread(rms, room) ==
  [i \in 1..Len(rms) |->
     IF rms[i].id = room THEN [rms[i] EXCEPT !.unread_count = 0] ELSE rms[i]]

\* { type: 'join_room', room_id: room.id }
JoinRoom(room) == [type |-> "join_room", room_id |-> room]

\* { type: 'send_message', room_id: currentRoom.id, content }
SendMessage(room, content) ==
  [type |-> "send_message", room_id |-> room, content |-> content]

\* set({ messages }) after the await
StoreHistory_Merge(msgs, history, cur, room) == msgs \o history
StoreHistory(msgs, history, cur, room) == history

\* selectRoom(room) after its await, chatService.getMessages having resolved
selectRoomResolved(room, history) ==
  /\ fetches[room] > 0
  /\ fetches' = [fetches EXCEPT ![room] = @ - 1]
  /\ messages' = StoreHistory(messages, history, currentRoom, room)
  /\ handed' = <<JoinRoom(room)>>
  /\ wireOut' = send(Client, handed')
  /\ console' = Warned(Client, handed')
  /\ rooms' = ResetUnread(rooms, room)
  /\ invoked' = <<>>
  /\ track' = IF track.room = room /\ (track.settled => track.hist = history)
              THEN [track EXCEPT !.hist = history, !.settled = TRUE]
              ELSE NoTrack
  /\ UNCHANGED <<connVars, currentRoom, connected, msgSeq, disconnected, unheard, lastToken, run,
                 expected, subs>>

\* catch (error) { console.error(...) }: the buffer is not touched
MessagesAfterFailure_Cleared(msgs) == <<>>
MessagesAfterFailure(msgs) == msgs

\* selectRoom(room) after its await, chatService.getMessages having rejected
selectRoomFailed(room) ==
  /\ fetches[room] > 0
  /\ fetches' = [fetches EXCEPT ![room] = @ - 1]
  /\ messages' = MessagesAfterFailure(messages)
  /\ handed' = <<>>
  /\ wireOut' = <<>>
  /\ invoked' = <<>>
  /\ console' = "Failed to fetch messages"
  /\ track' = NoTrack
  /\ UNCHANGED <<connVars, rooms, currentRoom, connected, msgSeq, disconnected, unheard, lastToken, run,
                 expected, subs>>

\* sendMessage builds the envelope and calls wsClient.send: nothing is
\* appended to the buffer
MessagesAfterSend_Optimistic(msgs, cur, content) ==
  IF cur = NoRoom THEN msgs ELSE Append(msgs, [id |-> -1, room_id |-> cur])
MessagesAfterSend(msgs, cur, content) == msgs

\* the body of sendMessage(content)
SendMessageCall(content) ==
  /\ handed' = IF currentRoom = NoRoom THEN <<>>
               ELSE <<SendMessage(currentRoom, content)>>
  /\ wireOut' = send(Client, handed')
  /\ console' = Warned(Client, handed')
  /\ messages' = MessagesAfterSend(messages, currentRoom, content)
  /\ invoked' = <<>>
  /\ UNCHANGED <<connVars, rooms, currentRoom, connected, fetches, msgSeq, histVars>>

\* sendMessage(content), called on the store
sendMessage(content) == SendMessageCall(content)

\* String.prototype.trim on a sequence of characters
RECURSIVE TrimLeft(_)
TrimLeft(str) ==
  IF str # <<>> /\ Head(str) = " " THEN TrimLeft(Tail(str)) ELSE str
RECURSIVE TrimRight(_)
TrimRight(str) ==
  IF str # <<>> /\ str[Len(str)] = " "
  THEN TrimRight(SubSeq(str, 1, Len(str) - 1)) ELSE str
Trim_Not(str) == str
Trim(str) == TrimRight(TrimLeft(str))

\* Chat.handleSend: if (inputMessage.trim() && currentRoom) sendMessage(inputMessage)
handleSend(inputMessage) ==
  IF Trim(inputMessage) # <<>> /\ currentRoom # NoRoom
  THEN SendMessageCall(inputMessage)
  ELSE NoObs /\ UNCHANGED <<connVars, storeVars, histVars>>

Init ==
  /\ ws = NoSocket
  /\ sockets = <<>>
  /\ timers = {}
  /\ reconnectAttempts = 0
  /\ listeners = <<>>
  /\ rooms = <<>>
  /\ currentRoom = NoRoom
  /\ messages = <<>>
  /\ connected = FALSE
  /\ fetches = [r \in RoomIds |-> 0]
  /\ msgSeq = 0
  /\ handed = <<>>
  /\ wireOut = <<>>
  /\ invoked = <<>>
  /\ console = Silent
  /\ disconnected = FALSE
  /\ unheard = FALSE
  /\ lastToken = NoToken
  /\ run = Untracked
  /\ expected = [r \in RoomIds |-> 0]
  /\ subs = <<>>
  /\ track = NoTrack

NextConn ==
  \/ \E token \in DeepTokens : Len(sockets) < MaxDeepSockets /\ WsConnect(token)
  \/ WsDisconnect
  \/ \E s \in 1..Len(sockets) : onopen(s)
  \/ \E s \in 1..Len(sockets) : onclose(s)
  \/ \E t \in timers : Len(sockets) < MaxDeepSockets /\ reconnect(t)

SpecConn == Init /\ [][NextConn]_vars

\* ---- the client while no socket ever opens: explicit connects, closes and
\* timers only

NextStorm ==
  \/ \E token \in DeepTokens : Len(sockets) < MaxStormSockets /\ WsConnect(token)
  \/ \E s \in 1..Len(sockets) : onclose(s)
  \/ \E t \in timers : Len(sockets) < MaxStormSockets /\ reconnect(t)

SpecStorm == Init /\ [][NextStorm]_vars

\* ---- the client connected with one token and then another

NextTokens ==
  \/ \E token \in Tokens : Len(sockets) < MaxTokenSockets /\ WsConnect(token)
  \/ WsDisconnect
  \/ \E s \in 1..Len(sockets) : onopen(s)
  \/ \E s \in 1..Len(sockets) : onclose(s)
  \/ \E t \in timers : Len(sockets) < MaxTokenSockets /\ reconnect(t)

SpecTokens == Init /\ [][NextTokens]_vars

\* The listener registry alone: callers subscribe and unsubscribe.
NextBus ==
  \/ \E id \in ListenerKeys : Len(subs) < MaxSubs /\ WsOn(id)
  \/ \E n \in 1..Len(subs) : WsUnsubscribe(n)

SpecBus == Init /\ [][NextBus]_vars

\* ---- the store over a connection that stays up: inbound events

NextInbound ==
  \/ \E token \in DeepTokens : Len(sockets) < MaxSockets /\ connectWebSocket(token)
  \/ disconnectWebSocket
  \/ \E s \in 1..Len(sockets) : onopen(s)
  \/ \E s \in 1..Len(sockets), r \in RoomIds :
       msgSeq < MaxMsgs /\ onmessage(s, NewMessage(r, msgSeq + 1))
  \/ \E s \in 1..Len(sockets), frame \in OtherFrames : onmessage(s, frame)
  \/ \E list \in ServerRoomLists : fetchRooms(list)
  \/ \E room \in RoomIds : InFlight < MaxFetches /\ selectRoom(room)
  \/ \E room \in RoomIds : \E history \in Histories(room) : selectRoomResolved(room, history)
  \/ \E room \in RoomIds : selectRoomFailed(room)

SpecInbound == Init /\ [][NextInbound]_vars

\* ---- the store over the whole socket lifecycle: outbound envelopes

NextOutbound ==
  \/ \E token \in DeepTokens : Len(sockets) < MaxSockets /\ connectWebSocket(token)
  \/ disconnectWebSocket
  \/ \E s \in 1..Len(sockets) : onopen(s)
  \/ \E s \in 1..Len(sockets) : onclose(s)
  \/ \E t \in timers : Len(sockets) < MaxSockets /\ reconnect(t)
  \/ \E list \in ServerRoomLists : fetchRooms(list)
  \/ \E room \in RoomIds : InFlight < MaxFetches /\ selectRoom(room)
  \/ \E room \in RoomIds : \E history \in Histories(room) : selectRoomResolved(room, history)
  \/ \E room \in RoomIds : selectRoomFailed(room)
  \/ \E content \in Contents : sendMessage(content)
  \/ \E inputMessage \in Contents : handleSend(inputMessage)

SpecOutbound == Init /\ [][NextOutbound]_vars

\* ---- the store over sockets that close and are replaced: frames that
\* arrive after a disconnect or a reconnection

NextLate ==
  \/ \E token \in DeepTokens : Len(sockets) < MaxSockets /\ connectWebSocket(token)
  \/ disconnectWebSocket
  \/ \E s \in 1..Len(sockets) : onopen(s)
  \/ \E s \in 1..Len(sockets) : onclose(s)
  \/ \E t \in timers : Len(sockets) < MaxSockets /\ reconnect(t)
  \/ \E s \in 1..Len(sockets), r \in RoomIds :
       msgSeq < MaxMsgs /\ onmessage(s, NewMessage(r, msgSeq + 1))
  \/ \E list \in ServerRoomLists : fetchRooms(list)
  \/ \E room \in RoomIds : InFlight < MaxFetches /\ selectRoom(room)

SpecLate == Init /\ [][NextLate]_vars

\* ------------------------------------------------------------ properties

\* C1: for every room of the room list, unread_count equals the number of
\* new_message events for that room that reached the store while another
\* room (or none) was current, counted since selectRoom was last called
\* for it.
C1_UnreadAccounting ==
  \A i \in 1..Len(rooms) : rooms[i].unread_count = expected[rooms[i].id]

\* C2: the message buffer holds no message of a room other than the
\* current room.
C2_BufferOnlyCurrentRoom ==
  \A i \in 1..Len(messages) : messages[i].room_id = currentRoom

\* C3: a history fetch that resolves for a room that is no longer the
\* current room is discarded: it leaves the message buffer as it was.
C3_StaleHistoryDiscarded ==
  [][\A room \in RoomIds : \A history \in Histories(room) :
       (selectRoomResolved(room, history) /\ room # currentRoom)
         => messages' = messages]_vars

\* C4: the step of selectRoom(room) that sets the current room also sets
\* the unread count of that room to 0.
C4_UnreadResetAtSelect ==
  [][\A room \in RoomIds :
       selectRoom(room) =>
         \A i \in 1..Len(rooms') :
            rooms'[i].id = room => rooms'[i].unread_count = 0]_vars

\* delays of five consecutive unexpected closes; 0: nothing scheduled
BackoffSchedule == <<1000, 2000, 4000, 5000, 5000, 0>>

\* C5: starting from reconnectAttempts = 0 with no client call in between,
\* consecutive unexpected closes schedule reconnections after 1000, 2000,
\* 4000, 5000, 5000 ms; the close after the fifth reconnection schedules
\* nothing and leaves no socket alive and no timer pending.
C5_BackoffSequence ==
  run # Untracked =>
    /\ Len(run) <= Len(BackoffSchedule)
    /\ \A i \in 1..Len(run) : run[i] = BackoffSchedule[i]
    /\ \A t \in timers : Len(run) > 0 /\ t.delay = run[Len(run)]
    /\ Len(run) = Len(BackoffSchedule) => Quiet

C5_Witness == run = BackoffSchedule

LiveSockets ==
  {s \in 1..Len(sockets) : sockets[s].readyState \in {"CONNECTING", "OPEN"}}

\* C6: after disconnect(), until the next explicit connect, the client
\* holds no socket and no socket is connecting or open.
C6_DisconnectStaysClosed ==
  disconnected => (ws = NoSocket /\ LiveSockets = {})

\* C7: at most one socket is connecting or open, and it is the one the
\* client holds.
C7_AtMostOneLiveSocket ==
  /\ Cardinality(LiveSockets) <= 1
  /\ \A s \in LiveSockets : s = ws

C7_Witness ==
  /\ ws # NoSocket
  /\ sockets[ws].readyState = "OPEN"
  /\ \E s \in 1..Len(sockets) : sockets[s].readyState = "CLOSING"
  /\ timers # {}

\* steps, told by what they change
Opened ==
  \E s \in 1..Len(sockets) :
     sockets[s].readyState = "CONNECTING" /\ sockets'[s].readyState = "OPEN"
ClosedUnexpectedly ==
  \E s \in 1..Len(sockets) :
     sockets[s].readyState \in {"CONNECTING", "OPEN"} /\ sockets'[s].readyState = "CLOSED"
ClosedAtAll ==
  \E s \in 1..Len(sockets) :
     sockets[s].readyState # "CLOSED" /\ sockets'[s].readyState = "CLOSED"
TimerFired == \E t \in timers : t \notin timers'

\* C8 as stated: reconnectAttempts becomes 0 at every open, grows by 1 at
\* every unexpected close, at the close event, and changes at no other time.
C8_CountsAtClose ==
  [][/\ Opened => reconnectAttempts' = 0
     /\ ClosedUnexpectedly => reconnectAttempts' = reconnectAttempts + 1
     /\ reconnectAttempts' # reconnectAttempts => (Opened \/ ClosedUnexpectedly)]_vars

\* C8 amended: reconnectAttempts becomes 0 at every open, grows by 1 each
\* time a reconnection timer fires, is left alone by every close event, and
\* changes at no other time.
C8_CountsAtReconnect ==
  [][/\ Opened => reconnectAttempts' = 0
     /\ TimerFired => reconnectAttempts' = reconnectAttempts + 1
     /\ ClosedAtAll => reconnectAttempts' = reconnectAttempts
     /\ reconnectAttempts' # reconnectAttempts => (Opened \/ TimerFired)]_vars

C8_Witness ==
  /\ reconnectAttempts = 2
  /\ ws # NoSocket
  /\ sockets[ws].readyState = "CLOSED"
  /\ timers # {}

SocketOpen == ws # NoSocket /\ sockets[ws].readyState = "OPEN"

\* C9: what a step puts on the socket is exactly what it handed to send if
\* the socket is open at that moment, and nothing otherwise (nothing is kept
\* for later); sendMessage leaves rooms and messages as they were.
C9_SendOnlyWhenOpen ==
  [][/\ wireOut' = (IF SocketOpen THEN handed' ELSE <<>>)
     /\ (\E content \in Contents : sendMessage(content))
          => UNCHANGED <<rooms, messages>>]_vars

C9_Witness ==
  /\ handed # <<>>
  /\ handed[1].type = "send_message"
  /\ wireOut = <<>>
  /\ ws # NoSocket
  /\ sockets[ws].readyState = "CONNECTING"

ParsableFrames ==
  {f \in OtherFrames : ~ParseFails(f)}
    \cup {NewMessage(r, msgSeq + 1) : r \in RoomIds}

\* C10: onmessage calls every registered listener, in registration order,
\* for every frame that parses, also when one of them throws.
C10_DispatchReachesAll ==
  [][\A s \in 1..Len(sockets) : \A frame \in ParsableFrames :
       onmessage(s, frame) => invoked' = listeners]_vars

\* registrations made through on() whose own returned function was not invoked
LiveSubs == {n \in 1..Len(subs) : ~subs[n].cancelled}

\* C11: the registered listeners are the registrations made minus those
\* whose own returned function was invoked: one Map entry per such
\* registration, under that registration's id.
C11_LiveRegistrations ==
  /\ Len(listeners) = Cardinality(LiveSubs)
  /\ \A n \in LiveSubs : \E i \in 1..Len(listeners) : listeners[i] = subs[n].id

\* C12: once the selectRoom calls made in a row for one room, one or
\* several, and their history fetches have settled with the same history,
\* with no frame, room list or other selection in between, the buffer is
\* exactly that history, the room is current, and the room list is the one
\* of the first call with that room's unread count reset: what one call
\* alone leaves.
C12_BufferReplaced ==
  (track.settled /\ InFlight = 0)
    => /\ messages = track.hist
       /\ currentRoom = track.room
       /\ rooms = ResetUnread(track.rooms0, track.room)

C12_Witness ==
  /\ track.settled
  /\ InFlight = 0
  /\ track.calls = 2
  /\ track.hist # <<>>
  /\ rooms # track.rooms0

\* C13: disconnect() leaves the client with no socket, no listeners, no
\* socket connecting or open and reconnectAttempts as it was, and calling
\* it again right away leaves that state as it is.
C13_DisconnectTwice ==
  [][disconnectWebSocket
       => /\ ws' = NoSocket
          /\ listeners' = <<>>
          /\ LiveSockets' = {}
          /\ reconnectAttempts' = reconnectAttempts
          /\ disconnect(Client') = Client']_vars

C13_Witness ==
  /\ disconnected
  /\ ws = NoSocket
  /\ listeners = <<>>
  /\ reconnectAttempts > 0
  /\ \E s \in 1..Len(sockets) : sockets[s].readyState = "CLOSING"

\* C14: a frame that does not parse is dropped: no listener is called,
\* rooms, currentRoom and messages stay as they were, no socket changes
\* state, no timer is set, and the socket and the listeners that later frames
\* are dispatched to are the same as before.
C14_UnparsableDropped ==
  [][\A s \in 1..Len(sockets) : \A frame \in OtherFrames :
       (frame.kind = "unparsable" /\ onmessage(s, frame))
         => /\ invoked' = <<>>
            /\ UNCHANGED <<rooms, currentRoom, messages>>
            /\ UNCHANGED <<ws, sockets, timers, reconnectAttempts, listeners>>]_vars

C14_Witness ==
  /\ console = "Error parsing WebSocket message"
  /\ invoked = <<>>
  /\ listeners # <<>>
  /\ SocketOpen
  /\ messages # <<>>

\* the buffer entry of the n-th new_message frame, for room r
Entry(r, n) == [id |-> n, room_id |-> r]

\* frames are numbered as the connection delivers them; history entries are 0
InDeliveryOrder(msgs) ==
  \A i, j \in 1..Len(msgs) : i < j => msgs[i].id <= msgs[j].id

\* C15: a new_message frame is appended to the buffer, after what the buffer
\* held, exactly when its room is the current room at that moment (once per
\* registered store listener); otherwise the buffer stays as it was; the
\* buffer holds the appended messages in the order their frames arrived.
C15_AppendIffCurrent ==
  [][\A s \in 1..Len(sockets) : \A r \in RoomIds :
       (msgSeq' = msgSeq + 1 /\ onmessage(s, NewMessage(r, msgSeq + 1)))
         => /\ IF currentRoom # NoRoom /\ r = currentRoom
               THEN \E k \in 1..Cardinality(ListenerKeys) :
                      messages' = messages \o [i \in 1..k |-> Entry(r, msgSeq + 1)]
               ELSE messages' = messages
            /\ InDeliveryOrder(messages')]_vars

C15_Witness ==
  /\ msgSeq = 2
  /\ currentRoom # NoRoom
  /\ \E i, j \in 1..Len(messages) :
       /\ i < j
       /\ messages[i] = Entry(currentRoom, 1)
       /\ messages[j] = Entry(currentRoom, 2)

\* C16: a new_message frame for a room that is not in the room list changes
\* neither rooms nor currentRoom nor messages, also when that room is the
\* current room.
C16_UnknownRoomIgnored ==
  [][\A s \in 1..Len(sockets) : \A r \in RoomIds :
       (~InRooms(rooms, r) /\ onmessage(s, NewMessage(r, msgSeq + 1)))
         => UNCHANGED <<rooms, currentRoom, messages>>]_vars

\* nothing but spaces
IsBlank(str) == \A i \in 1..Len(str) : str[i] = " "

\* C17 as stated: sendMessage(content) does nothing when no room is
\* selected or content is empty after trimming, and otherwise hands exactly
\* one send_message envelope with the current room and content to send.
C17_SendMessageTrims ==
  [][\A content \in Contents :
       sendMessage(content)
         => handed' = IF currentRoom = NoRoom \/ IsBlank(content)
                      THEN <<>>
                      ELSE <<SendMessage(currentRoom, content)>>]_vars

\* C17 amended: sendMessage(content) does nothing when no room is selected
\* and otherwise hands exactly one send_message envelope with the current
\* room and content as given, blank or not, to send; it is handleSend that
\* calls it only for an input that is not empty after trimming (and with a
\* room selected), passing the input untrimmed.
C17_HandleSendTrims ==
  [][/\ \A content \in Contents :
          sendMessage(content)
            => handed' = IF currentRoom = NoRoom
                         THEN <<>>
                         ELSE <<SendMessage(currentRoom, content)>>
     /\ \A inputMessage \in Contents :
          handleSend(inputMessage)
            => handed' = IF currentRoom = NoRoom \/ IsBlank(inputMessage)
                         THEN <<>>
                         ELSE <<SendMessage(currentRoom, inputMessage)>>]_vars

C17_Witness ==
  /\ currentRoom # NoRoom
  /\ handed = <<SendMessage(currentRoom, <<" ", "h", " ">>)>>
  /\ wireOut = handed

\* what a history fetch or a new_message frame can have put in the buffer
FromServer(m) ==
  \/ \E r \in RoomIds : \E h \in Histories(r) : \E i \in 1..Len(h) : m = h[i]
  \/ \E r \in RoomIds : \E n \in 1..msgSeq : m = Entry(r, n)

AllFromServer == \A i \in 1..Len(messages) : FromServer(messages[i])

\* C18: sendMessage, called directly or through handleSend, changes neither
\* messages nor rooms, whether or not the envelope reaches the socket, and
\* every entry of the buffer comes from a history fetch or a new_message
\* frame.
C18_NoOptimisticAppend ==
  [][/\ (\/ \E content \in Contents : sendMessage(content)
         \/ \E inputMessage \in Contents : handleSend(inputMessage))
          => UNCHANGED <<rooms, messages>>
     /\ AllFromServer']_vars

C18_Witness ==
  /\ handed # <<>>
  /\ handed[1].type = "send_message"
  /\ wireOut = handed
  /\ messages # <<>>
  /\ AllFromServer

\* C19: every selectRoom call hands a join_room envelope for its room to
\* send by the time it completes, however its history fetch ends and
\* whatever the state of the socket.
C19_JoinAlwaysHanded ==
  [][\A room \in RoomIds :
       (\/ \E history \in Histories(room) : selectRoomResolved(room, history)
        \/ selectRoomFailed(room))
         => handed' = <<JoinRoom(room)>>]_vars

\* C20: a history fetch that fails changes neither messages nor currentRoom
\* nor rooms; the failure is logged and goes no further.
C20_FetchFailureContained ==
  [][\A room \in RoomIds :
       selectRoomFailed(room)
         => /\ UNCHANGED <<rooms, currentRoom, messages>>
            /\ console' = "Failed to fetch messages"]_vars

C20_Witness ==
  /\ console = "Failed to fetch messages"
  /\ currentRoom # NoRoom
  /\ messages # <<>>

\* frames of a type the store has no transition for
NoOpKinds == {"user_typing", "presence_update", "unknown"}

\* C21: a user_typing, presence_update or unknown-type frame reaches every
\* listener, changes neither rooms nor currentRoom nor messages, and
\* nothing is thrown (the dispatch logs no error).
C21_OtherTypesNoOp ==
  [][\A s \in 1..Len(sockets) : \A frame \in OtherFrames :
       (frame.kind \in NoOpKinds /\ onmessage(s, frame))
         => /\ UNCHANGED <<rooms, currentRoom, messages>>
            /\ invoked' = listeners
            /\ console' = Silent]_vars

C21_Witness ==
  /\ SocketOpen
  /\ invoked = listeners
  /\ invoked # <<>>
  /\ console = Silent
  /\ messages # <<>>
  /\ msgSeq = 0

\* C22: disconnect() leaves the listener registry empty, and a frame that
\* arrives after it, on whatever socket, before the store subscribes again
\* calls no listener and changes neither rooms nor currentRoom nor messages.
C22_NoDispatchAfterDisconnect ==
  [][/\ disconnectWebSocket => listeners' = <<>>
     /\ \A s \in 1..Len(sockets) : \A r \in RoomIds :
          (disconnected /\ msgSeq' = msgSeq + 1
             /\ onmessage(s, NewMessage(r, msgSeq + 1)))
            => /\ invoked' = <<>>
               /\ UNCHANGED <<rooms, currentRoom, messages>>]_vars

C22_Witness ==
  /\ disconnected
  /\ unheard
  /\ rooms # <<>>
  /\ currentRoom # NoRoom
  /\ \E s \in 1..Len(sockets) : sockets[s].readyState = "OPEN"

\* rooms and messages after the listeners have handled frame
AfterFrame(st, cur, frame) ==
  LET out == forEach(listeners, st, cur, frame, <<>>)
  IN [rooms |-> out.rooms, messages |-> out.messages]

\* rooms and messages after the history fetch of room has resolved
AfterResolved(st, cur, room, history) ==
  [rooms |-> ResetUnread(st.rooms, room),
   messages |-> StoreHistory(st.messages, history, cur, room)]

\* C23: while the history fetch of the current room S is in flight, handling
\* a new_message for another room X and then the fetch's resolution leaves
\* the same rooms and messages as the resolution and then the new_message
\* (currentRoom is S in both orders).
C23_OrderInsensitive ==
  \A S \in RoomIds : \A X \in RoomIds \ {S} : \A history \in Histories(S) :
    (currentRoom = S /\ fetches[S] > 0)
      => LET st == [rooms |-> rooms, messages |-> messages]
             frame == NewMessage(X, msgSeq + 1)
         IN AfterResolved(AfterFrame(st, S, frame), S, S, history)
              = AfterFrame(AfterResolved(st, S, S, history), S, frame)

C23_Witness ==
  /\ currentRoom # NoRoom
  /\ fetches[currentRoom] > 0
  /\ invoked # <<>>
  /\ console = Silent
  /\ msgSeq = 1
  /\ \E i \in 1..Len(rooms) :
       rooms[i].id # currentRoom /\ rooms[i].unread_count > 0

\* C24: the close event of a socket the client closed itself (close() was
\* called on it by connect or disconnect: it is CLOSING) sets no
\* reconnection timer.
C24_NoReconnectAfterOwnClose ==
  [][\A s \in 1..Len(sockets) :
       (sockets[s].readyState = "CLOSING" /\ onclose(s)) => timers' = timers]_vars

\* C25: at most one store handler is registered on the connection.
C25_OneStoreHandler == Len(listeners) <= 1

\* the entries of the buffer that arrived as new_message frames
Arrived(msgs) == {msgs[i] : i \in {j \in 1..Len(msgs) : msgs[j].id > 0}}

\* C26: a new_message in the buffer stays in it as long as the current room
\* is the same and no selectRoom call is made; in particular the resolution
\* of a history fetch does not drop it.
C26_ArrivedMessagesKept ==
  [][(currentRoom' = currentRoom /\ \A r \in RoomIds : fetches'[r] <= fetches[r])
       => Arrived(messages) \subseteq Arrived(messages')]_vars

\* C28: at most one reconnection timer is pending.
C28_AtMostOneTimer == Cardinality(timers) <= 1

\* C30: connected is true only while the client holds a socket that is
\* connecting or open.
C30_ConnectedFlag ==
  connected => (ws # NoSocket /\ sockets[ws].readyState \in {"CONNECTING", "OPEN"})

\* C27: reconnectAttempts never exceeds maxReconnectAttempts.
C27_AttemptsCapped == reconnectAttempts <= maxReconnectAttempts

\* C29: the socket the client holds, while connecting or open, carries the
\* token of the last explicit connect.
C29_LatestTokenWins ==
  (ws # NoSocket /\ sockets[ws].readyState \in {"CONNECTING", "OPEN"})
    => sockets[ws].token = lastToken

====
